---- MODULE Spec2Model ----
(***************************************************************************)
(* Model of backend/services/subscriber.py (SubscriberService) and of      *)
(* backend/services/utils/codec.py (PasswordCodec).                        *)
(*                                                                         *)
(* Four specifications share the state:                                    *)
(*   SpecCrud    create / update / delete / get_by_id / get_by_email, one  *)
(*               call at a time, from an empty subscriber collection;      *)
(*   SpecCreate  SpecCrud without update;                                  *)
(*   SpecFollow  provider_follow / provider_unfollow, one call at a time,  *)
(*               on registered subscribers;                                *)
(*   SpecRace    provider_follow / provider_unfollow calls that run        *)
(*               concurrently and interleave at their awaits.              *)
(***************************************************************************)
EXTENDS Integers, Sequences, FiniteSets, TLC

VARIABLES
    subscribers,   \* the subscriber collection: id -> stored Subscriber
    providers,     \* the provider collection: the ids of the stored providers
    nextId,        \* the id the database gives the next created subscriber
    last,          \* the last completed service call and its outcome
    prev,          \* the follow-API call completed before `last`
    calls          \* the concurrent calls of SpecRace: call -> its frame

vars == <<subscribers, providers, nextId, last, prev, calls>>

---------------------------------------------------------------------------
\* Bounds of the model.

MaxSubscribers == 1     \* registered subscribers of SpecFollow and SpecRace
MaxCreated == 2         \* subscribers created in SpecCrud and SpecCreate
MaxProviders == 2       \* stored providers: 1..MaxProviders
MaxEmails == 2          \* distinct e-mail addresses callers use
MaxCalls == 2           \* concurrent calls of SpecRace

\* Ids callers ask for: every id the database can hold and one it never holds.
SubscriberIds == 1..(MaxSubscribers + 1)
CreatedIds == 1..(MaxCreated + 1)
ProviderIds == 1..(MaxProviders + 1)
Email(n) == <<"user", n>>
Emails == {Email(n) : n \in 1..MaxEmails}
\* Passwords callers send, and the salts bcrypt may draw.
Plaintexts == {<<"pw1">>, <<"pw2">>}
Salts == {"salt1", "salt2"}

---------------------------------------------------------------------------
\* Python's None, and the outcome kinds (core.exceptions).

None == [none |-> TRUE]

Ok == "ok"
NotFound == "NotFoundException"
ExistingData == "ExistingDataException"
Database == "DatabaseException"

---------------------------------------------------------------------------
\* PasswordCodec (bcrypt through passlib).  A hash is the scheme marker, the
\* salt drawn for the call and the digest of the password under that salt.
\* The digest is one-way: nothing reads the password back out of it, and
\* verify recomputes it from the candidate password and the stored salt.

Digest(password, salt) == <<"digest", salt, password>>

PasswordCodecHash(password, salt) == <<"$2b$", salt, Digest(password, salt)>>

PasswordCodecVerify(password, hashed_password) ==
    /\ Len(hashed_password) = 3
    /\ hashed_password[1] = "$2b$"
    /\ hashed_password[3] = Digest(password, hashed_password[2])

\* x is what PasswordCodec.hash returns for some password a caller sent
IsHashOutput(x) ==
    \E password \in Plaintexts, salt \in Salts :
        x = PasswordCodecHash(password, salt)

---------------------------------------------------------------------------
\* The Subscriber model and the database access objects (DBSubscriber,
\* RssProviderDatabase).

Subscriber(id, email, password, is_verified, subscribed_providers) ==
    [id |-> id, email |-> email, password |-> password,
     is_verified |-> is_verified, subscribed_providers |-> subscribed_providers]

\* get_by_id: the stored subscriber, or None
DbGetById(db, id) == IF id \in DOMAIN db THEN db[id] ELSE None

\* get_by_email: the documents a find-one by email may return ({None} when
\* no document matches)
DbGetByEmail(db, email) ==
    LET found == {db[i] : i \in {j \in DOMAIN db : db[j].email = email}}
    IN  IF found = {} THEN {None} ELSE found

\* create: the database assigns the id and stores the document
DbCreate(db, id, subscriber) ==
    [i \in DOMAIN db \cup {id} |->
        IF i = id THEN [subscriber EXCEPT !.id = id] ELSE db[i]]

\* what create returns: the stored document
DbCreateResult(db, id, subscriber) == [subscriber EXCEPT !.id = id]

\* update by id: the document stored under id takes the payload's fields
\* and keeps its id; nothing is written when id is absent
DbUpdate(db, id, subscriber) ==
    IF id \in DOMAIN db
    THEN [db EXCEPT ![id] = [subscriber EXCEPT !.id = id]]
    ELSE db

\* what update returns: the updated document, or None when id is absent
DbUpdateResult(db, id, subscriber) ==
    IF id \in DOMAIN db THEN [subscriber EXCEPT !.id = id] ELSE None

\* delete by id
DbDelete(db, id) == [i \in DOMAIN db \ {id} |-> db[i]]

\* what delete returns: whether a document was deleted
DbDeleteResult(db, id) == id \in DOMAIN db

\* RssProviderDatabase.get_by_id: the provider, or None
ProviderGetById(pdb, provider_id) ==
    IF provider_id \in pdb THEN [id |-> provider_id] ELSE None

---------------------------------------------------------------------------
\* The record of a completed call.

NoPayload == Subscriber(0, <<>>, <<>>, FALSE, <<>>)

Call(op, id, provider_id, payload, kind, msg, before) ==
    [op |-> op, id |-> id, provider_id |-> provider_id, payload |-> payload,
     kind |-> kind, msg |-> msg, before |-> before]

NoCall == Call("none", 0, 0, NoPayload, Ok, "", <<>>)

\* the subscribed_providers stored for id before a call (<<>> when absent)
Before(db, id) == IF id \in DOMAIN db THEN db[id].subscribed_providers ELSE <<>>

---------------------------------------------------------------------------
\* provider_follow and provider_unfollow: the list steps between the awaits.

\* variants of AlreadyFollows: the check left out, and a check of the first
\* entry only
MutAlreadyFollowsNever(provider_id, subscriber_providers) == FALSE

MutAlreadyFollowsHead(provider_id, subscriber_providers) ==
    subscriber_providers # <<>> /\ subscriber_providers[1] = provider_id

\* `provider_id in subscriber_providers`
AlreadyFollows(provider_id, subscriber_providers) ==
    \E k \in DOMAIN subscriber_providers : subscriber_providers[k] = provider_id

\* variant of NotFollowing: the check left out
MutNotFollowingNever(provider_id, subscriber_providers) == FALSE

\* `provider_id not in subscriber_providers`
NotFollowing(provider_id, subscriber_providers) ==
    \A k \in DOMAIN subscriber_providers : subscriber_providers[k] # provider_id

\* `subscriber_providers.append(provider_id)`
ListAppend(subscriber_providers, provider_id) ==
    Append(subscriber_providers, provider_id)

\* variant of ListRemove: drops the first entry, whatever it is
MutListRemoveHead(subscriber_providers, provider_id) ==
    IF subscriber_providers = <<>> THEN <<>> ELSE Tail(subscriber_providers)

\* `subscriber_providers.remove(provider_id)`: drops the first occurrence
\* (called only when there is one)
ListRemove(subscriber_providers, provider_id) ==
    LET hits == {k \in DOMAIN subscriber_providers :
                    subscriber_providers[k] = provider_id}
    IN  IF hits = {} THEN subscriber_providers
        ELSE LET first == CHOOSE k \in hits : \A h \in hits : k <= h
             IN  SubSeq(subscriber_providers, 1, first - 1)
                    \o SubSeq(subscriber_providers, first + 1,
                              Len(subscriber_providers))

\* provider_follow, after both reads (lines 174-180): the error raised, or
\* the caller's copy with provider_id appended: <<kind, msg, db_subscriber>>
FollowList(db_subscriber, provider_id) ==
    IF AlreadyFollows(provider_id, db_subscriber.subscribed_providers)
    THEN <<ExistingData, "already follows", db_subscriber>>
    ELSE <<Ok, "",
           [db_subscriber EXCEPT !.subscribed_providers =
               ListAppend(db_subscriber.subscribed_providers, provider_id)]>>

\* provider_unfollow, after both reads (lines 199-205)
UnfollowList(db_subscriber, provider_id) ==
    IF NotFollowing(provider_id, db_subscriber.subscribed_providers)
    THEN <<NotFound, "does not follow", db_subscriber>>
    ELSE <<Ok, "",
           [db_subscriber EXCEPT !.subscribed_providers =
               ListRemove(db_subscriber.subscribed_providers, provider_id)]>>

\* the outcome of provider_follow run without suspension on database db:
\* <<kind, msg, db afterwards>>
FollowOutcome(db, pdb, id, provider_id) ==
    LET db_subscriber == DbGetById(db, id)
        provider == ProviderGetById(pdb, provider_id)
    IN  IF db_subscriber = None THEN <<NotFound, "subscriber", db>>
        ELSE IF provider = None THEN <<NotFound, "provider", db>>
        ELSE LET step == FollowList(db_subscriber, provider_id)
             IN  IF step[1] # Ok THEN <<step[1], step[2], db>>
                 ELSE <<Ok, "", DbUpdate(db, id, step[3])>>

UnfollowOutcome(db, pdb, id, provider_id) ==
    LET db_subscriber == DbGetById(db, id)
        provider == ProviderGetById(pdb, provider_id)
    IN  IF db_subscriber = None THEN <<NotFound, "subscriber", db>>
        ELSE IF provider = None THEN <<NotFound, "provider", db>>
        ELSE LET step == UnfollowList(db_subscriber, provider_id)
             IN  IF step[1] # Ok THEN <<step[1], step[2], db>>
                 ELSE <<Ok, "", DbUpdate(db, id, step[3])>>

ProviderFollow(id, provider_id) ==
    LET out == FollowOutcome(subscribers, providers, id, provider_id)
    IN  /\ subscribers' = out[3]
        /\ last' = Call("provider_follow", id, provider_id, NoPayload,
                        out[1], out[2], Before(subscribers, id))
        /\ prev' = last
        /\ UNCHANGED <<providers, nextId, calls>>

ProviderUnfollow(id, provider_id) ==
    LET out == UnfollowOutcome(subscribers, providers, id, provider_id)
    IN  /\ subscribers' = out[3]
        /\ last' = Call("provider_unfollow", id, provider_id, NoPayload,
                        out[1], out[2], Before(subscribers, id))
        /\ prev' = last
        /\ UNCHANGED <<providers, nextId, calls>>

---------------------------------------------------------------------------
\* SpecFollow: follow and unfollow calls, one at a time, on subscribers that
\* have registered (create stores the hashed password; nobody is followed).

Registered(i) ==
    Subscriber(i, Email(i), PasswordCodecHash(<<"pw1">>, "salt1"), FALSE, <<>>)

NoCalls == [c \in 1..MaxCalls |->
              [pc |-> "idle", op |-> "none", id |-> 0, provider_id |-> 0,
               db_subscriber |-> None, kind |-> Ok]]

InitFollow ==
    /\ subscribers = [i \in 1..MaxSubscribers |-> Registered(i)]
    /\ providers = 1..MaxProviders
    /\ nextId = MaxSubscribers + 1
    /\ last = NoCall
    /\ prev = NoCall
    /\ calls = NoCalls

NextFollow ==
    \/ \E id \in SubscriberIds, provider_id \in ProviderIds :
          ProviderFollow(id, provider_id)
    \/ \E id \in SubscriberIds, provider_id \in ProviderIds :
          ProviderUnfollow(id, provider_id)

SpecFollow == InitFollow /\ [][NextFollow]_vars

---------------------------------------------------------------------------
\* SpecCrud: create, update, delete, get_by_id and get_by_email, one call at
\* a time, from an empty subscriber collection.

\* variant of CreateRejects: only a verified holder of the email counts
MutCreateRejectsVerifiedOnly(email_search) ==
    email_search # None /\ email_search.is_verified

\* create, `if email_search:` (line 91)
CreateRejects(email_search) == email_search # None

\* create, the message of the ExistingDataException (lines 92-98)
CreateMessage(email_search) ==
    IF email_search.is_verified THEN "already exists"
    ELSE "has not verified email"

\* update, the condition under which the payload is written (lines 127-129)
UpdateWrites(email_search, subscriber) ==
    \/ (email_search # None /\ email_search.id = subscriber.id)
    \/ email_search = None

Create(subscriber, salt) ==
    \E email_search \in DbGetByEmail(subscribers, subscriber.email) :
        IF CreateRejects(email_search)
        THEN /\ last' = Call("create", 0, 0, subscriber, ExistingData,
                             CreateMessage(email_search), <<>>)
             /\ UNCHANGED <<subscribers, providers, nextId, prev, calls>>
        ELSE /\ nextId <= MaxCreated    \* the bound on created subscribers
             /\ LET hashed == [subscriber EXCEPT !.password =
                                  PasswordCodecHash(subscriber.password, salt)]
                    created == DbCreateResult(subscribers, nextId, hashed)
                IN  /\ subscribers' = DbCreate(subscribers, nextId, hashed)
                    /\ last' = Call("create", nextId, 0, subscriber,
                                    IF created # None THEN Ok ELSE Database,
                                    "", <<>>)
             /\ nextId' = nextId + 1
             /\ UNCHANGED <<providers, prev, calls>>

Update(id, subscriber) ==
    LET db_subscriber == DbGetById(subscribers, id)
    IN  IF db_subscriber = None
        THEN /\ last' = Call("update", id, 0, subscriber, NotFound,
                             "subscriber", <<>>)
             /\ UNCHANGED <<subscribers, providers, nextId, prev, calls>>
        ELSE \E email_search \in DbGetByEmail(subscribers, subscriber.email) :
                IF UpdateWrites(email_search, subscriber)
                THEN LET result == DbUpdateResult(subscribers, id, subscriber)
                     IN  /\ subscribers' = DbUpdate(subscribers, id, subscriber)
                         /\ last' = Call("update", id, 0, subscriber,
                                         IF result # None THEN Ok ELSE Database,
                                         "", Before(subscribers, id))
                         /\ UNCHANGED <<providers, nextId, prev, calls>>
                ELSE /\ last' = Call("update", id, 0, subscriber, ExistingData,
                                     "already exists", Before(subscribers, id))
                     /\ UNCHANGED <<subscribers, providers, nextId, prev, calls>>

Delete(id) ==
    LET db_subscriber == DbGetById(subscribers, id)
    IN  IF db_subscriber = None
        THEN /\ last' = Call("delete", id, 0, NoPayload, NotFound,
                             "subscriber", <<>>)
             /\ UNCHANGED <<subscribers, providers, nextId, prev, calls>>
        ELSE /\ subscribers' = DbDelete(subscribers, id)
             /\ last' = Call("delete", id, 0, NoPayload,
                             IF DbDeleteResult(subscribers, id) THEN Ok
                             ELSE Database,
                             "", Before(subscribers, id))
             /\ UNCHANGED <<providers, nextId, prev, calls>>

GetById(id) ==
    LET subscriber == DbGetById(subscribers, id)
    IN  /\ last' = IF subscriber # None
                   THEN Call("get_by_id", id, 0, subscriber, Ok, "", <<>>)
                   ELSE Call("get_by_id", id, 0, NoPayload, NotFound,
                             "subscriber", <<>>)
        /\ UNCHANGED <<subscribers, providers, nextId, prev, calls>>

GetByEmail(email) ==
    \E subscriber \in DbGetByEmail(subscribers, email) :
        /\ last' = IF subscriber # None
                   THEN Call("get_by_email", subscriber.id, 0, subscriber, Ok,
                             "", <<>>)
                   ELSE Call("get_by_email", 0, 0,
                             [NoPayload EXCEPT !.email = email], NotFound,
                             "subscriber", <<>>)
        /\ UNCHANGED <<subscribers, providers, nextId, prev, calls>>

\* What callers send.  A registration carries no id and follows nobody; an
\* update carries any id (0: none), a new password or the stored one, and
\* the list the caller read.
CreatePayloads ==
    {Subscriber(0, email, password, is_verified, <<>>) :
        email \in Emails, password \in Plaintexts, is_verified \in BOOLEAN}

UpdatePayloads(id) ==
    {Subscriber(payload_id, email, password, is_verified, Before(subscribers, id)) :
        payload_id \in 0..MaxCreated, email \in Emails,
        password \in Plaintexts \cup
            {subscribers[i].password : i \in DOMAIN subscribers \cap {id}},
        is_verified \in BOOLEAN}

InitCrud ==
    /\ subscribers = <<>>
    /\ providers = 1..MaxProviders
    /\ nextId = 1
    /\ last = NoCall
    /\ prev = NoCall
    /\ calls = NoCalls

\* SpecCreate: registrations, removals and lookups.
NextCreate ==
    \/ \E subscriber \in CreatePayloads, salt \in Salts : Create(subscriber, salt)
    \/ \E id \in CreatedIds : Delete(id)
    \/ \E id \in CreatedIds : GetById(id)
    \/ \E email \in Emails : GetByEmail(email)

SpecCreate == InitCrud /\ [][NextCreate]_vars

\* SpecCrud: profile edits too.
NextCrud ==
    \/ NextCreate
    \/ \E id \in CreatedIds : \E subscriber \in UpdatePayloads(id) :
          Update(id, subscriber)

SpecCrud == InitCrud /\ [][NextCrud]_vars

---------------------------------------------------------------------------
\* SpecRace: follow and unfollow calls that run concurrently.  A call
\* suspends at each await (get_by_id of the subscriber, get_by_id of the
\* provider, update); what lies between two awaits runs without suspension.
\* Each call holds its own db_subscriber, the copy its get_by_id returned.

Frame(pc, op, id, provider_id, db_subscriber, kind) ==
    [pc |-> pc, op |-> op, id |-> id, provider_id |-> provider_id,
     db_subscriber |-> db_subscriber, kind |-> kind]

\* the call raises or returns; its locals are gone
Finish(c, op, id, provider_id, kind) ==
    calls' = [calls EXCEPT ![c] = Frame("done", op, id, provider_id, None, kind)]

\* a request arrives and the call runs to its first database answer:
\* `db_subscriber = await self.subscriber_db.get_by_id(id)` and the None check
AwaitGetSubscriber(c, op, id, provider_id) ==
    /\ calls[c].pc = "idle"
    /\ LET db_subscriber == DbGetById(subscribers, id)
       IN  IF db_subscriber = None
           THEN Finish(c, op, id, provider_id, NotFound)
           ELSE calls' = [calls EXCEPT ![c] =
                    Frame("get_provider", op, id, provider_id, db_subscriber, Ok)]
    /\ UNCHANGED <<subscribers, providers, nextId, last, prev>>

\* `provider = await RssProviderDatabase(...).get_by_id(provider_id)`, the
\* None check, the membership check and the change of the caller's copy
AwaitGetProvider(c) ==
    /\ calls[c].pc = "get_provider"
    /\ LET provider == ProviderGetById(providers, calls[c].provider_id)
           step == IF calls[c].op = "provider_follow"
                   THEN FollowList(calls[c].db_subscriber, calls[c].provider_id)
                   ELSE UnfollowList(calls[c].db_subscriber, calls[c].provider_id)
       IN  IF provider = None
           THEN Finish(c, calls[c].op, calls[c].id, calls[c].provider_id, NotFound)
           ELSE IF step[1] # Ok
           THEN Finish(c, calls[c].op, calls[c].id, calls[c].provider_id, step[1])
           ELSE calls' = [calls EXCEPT ![c] =
                    Frame("update", calls[c].op, calls[c].id,
                          calls[c].provider_id, step[3], Ok)]
    /\ UNCHANGED <<subscribers, providers, nextId, last, prev>>

\* `result = await self.subscriber_db.update(id, db_subscriber)`; `return result`
AwaitUpdate(c) ==
    /\ calls[c].pc = "update"
    /\ subscribers' = DbUpdate(subscribers, calls[c].id, calls[c].db_subscriber)
    /\ Finish(c, calls[c].op, calls[c].id, calls[c].provider_id, Ok)
    /\ UNCHANGED <<providers, nextId, last, prev>>

InitRace ==
    /\ subscribers = [i \in 1..MaxSubscribers |-> Registered(i)]
    /\ providers = 1..MaxProviders
    /\ nextId = MaxSubscribers + 1
    /\ last = NoCall
    /\ prev = NoCall
    /\ calls = NoCalls

NextRace ==
    \/ \E c \in 1..MaxCalls, id \in SubscriberIds, provider_id \in ProviderIds :
          AwaitGetSubscriber(c, "provider_follow", id, provider_id)
    \/ \E c \in 1..MaxCalls, id \in SubscriberIds, provider_id \in ProviderIds :
          AwaitGetSubscriber(c, "provider_unfollow", id, provider_id)
    \/ \E c \in 1..MaxCalls : AwaitGetProvider(c)
    \/ \E c \in 1..MaxCalls : AwaitUpdate(c)

SpecRace == InitRace /\ [][NextRace]_vars

---------------------------------------------------------------------------
\* Properties of SpecFollow.

Count(x, seq) == Cardinality({k \in DOMAIN seq : seq[k] = x})

FollowOk(c) == c.op = "provider_follow" /\ c.kind = Ok
SameTarget(c, d) == c.id = d.id /\ c.provider_id = d.provider_id

\* C3: after any sequence of provider_follow and provider_unfollow calls run
\* one at a time, no stored subscribed_providers holds a provider id at two
\* positions.
NoDuplicateFollows ==
    \A i \in DOMAIN subscribers :
        LET sp == subscribers[i].subscribed_providers
        IN  \A j, k \in DOMAIN sp : j # k => sp[j] # sp[k]

\* a subscriber follows two providers after an unfollow and a later follow
NoDuplicateFollowsWitness ==
    /\ prev.op = "provider_unfollow" /\ prev.kind = Ok
    /\ FollowOk(last)
    /\ Len(subscribers[last.id].subscribed_providers) >= 2

\* C6: a provider_follow(id, p) that succeeded, directly followed by a second
\* provider_follow(id, p), makes the second fail with ExistingData and leaves
\* the list as the first call left it (the prior list with p appended).
RepeatedFollowFails ==
    (FollowOk(prev) /\ last.op = "provider_follow" /\ SameTarget(prev, last))
    => /\ last.kind = ExistingData
       /\ subscribers[last.id].subscribed_providers = last.before
       /\ last.before = Append(prev.before, prev.provider_id)

\* the second follow of a provider that was appended behind another one
RepeatedFollowFailsWitness ==
    /\ FollowOk(prev) /\ last.op = "provider_follow" /\ SameTarget(prev, last)
    /\ last.kind = ExistingData
    /\ prev.before # <<>>

\* C7: provider_unfollow(id, p) fails with NotFound when the subscriber is
\* absent, the provider is absent, or p is not in the subscriber's list, and
\* the subscriber collection is then left as it was.
UnfollowNotFound ==
    [][(/\ last'.op = "provider_unfollow"
        /\ \/ last'.id \notin DOMAIN subscribers
           \/ last'.provider_id \notin providers
           \/ Count(last'.provider_id,
                    subscribers[last'.id].subscribed_providers) = 0)
       => (last'.kind = NotFound /\ subscribers' = subscribers)]_vars

\* an unfollow of a stored provider that a stored subscriber, who follows
\* another provider, does not follow
UnfollowNotFoundWitness ==
    /\ last.op = "provider_unfollow" /\ last.kind = NotFound
    /\ last.id \in DOMAIN subscribers
    /\ last.provider_id \in providers
    /\ last.before # <<>>
    /\ Count(last.provider_id, last.before) = 0
    /\ subscribers[last.id].subscribed_providers = last.before

\* C8: provider_follow(id, p) on a list S without p, directly followed by
\* provider_unfollow(id, p), succeeds and leaves the stored list equal to S.
FollowUnfollowRoundTrip ==
    (FollowOk(prev) /\ last.op = "provider_unfollow" /\ SameTarget(prev, last))
    => /\ last.kind = Ok
       /\ subscribers[last.id].subscribed_providers = prev.before
       /\ Count(last.provider_id, subscribers[last.id].subscribed_providers) = 0

\* the round trip on a subscriber who already follows another provider
FollowUnfollowRoundTripWitness ==
    /\ FollowOk(prev) /\ last.op = "provider_unfollow" /\ SameTarget(prev, last)
    /\ last.kind = Ok
    /\ prev.before # <<>>

---------------------------------------------------------------------------
\* Properties of SpecRace.

\* calls a and b are two provider_follow calls on subscriber id that both
\* returned without raising, and no other call has started
BothFollowed(a, b, id) ==
    /\ a # b
    /\ calls[a].op = "provider_follow" /\ calls[b].op = "provider_follow"
    /\ calls[a].id = id /\ calls[b].id = id
    /\ calls[a].pc = "done" /\ calls[b].pc = "done"
    /\ calls[a].kind = Ok /\ calls[b].kind = Ok
    /\ \A c \in 1..MaxCalls : c \in {a, b} \/ calls[c].pc = "idle"

\* C9, as claimed: two concurrent provider_follow(id, p) calls that both go
\* through leave p twice in the stored list (a double-append).
RaceDoubleAppend ==
    \A a, b \in 1..MaxCalls : \A id \in DOMAIN subscribers :
        (BothFollowed(a, b, id) /\ calls[a].provider_id = calls[b].provider_id)
        => Count(calls[a].provider_id, subscribers[id].subscribed_providers) = 2

\* C9, amended: however follow and unfollow calls interleave at their
\* awaits, no stored list ever holds a provider id twice; two concurrent
\* provider_follow(id, p) calls that both go through leave p exactly once.
RaceNeverDoubleAppends ==
    /\ \A id \in DOMAIN subscribers : \A p \in ProviderIds :
          Count(p, subscribers[id].subscribed_providers) <= 1
    /\ \A a, b \in 1..MaxCalls : \A id \in DOMAIN subscribers :
          (BothFollowed(a, b, id) /\ calls[a].provider_id = calls[b].provider_id)
          => Count(calls[a].provider_id,
                   subscribers[id].subscribed_providers) = 1

\* both calls for the same (id, p) returned without raising: a double success
RaceNeverDoubleAppendsWitness ==
    \E a, b \in 1..MaxCalls : \E id \in DOMAIN subscribers :
        /\ BothFollowed(a, b, id)
        /\ calls[a].provider_id = calls[b].provider_id
        /\ Count(calls[a].provider_id, subscribers[id].subscribed_providers) = 1

\* C10: two concurrent provider_follow calls of one subscriber for distinct
\* providers p and q that both return without raising leave both p and q in
\* the stored list.
NoLostFollow ==
    \A a, b \in 1..MaxCalls : \A id \in DOMAIN subscribers :
        (BothFollowed(a, b, id) /\ calls[a].provider_id # calls[b].provider_id)
        => /\ Count(calls[a].provider_id,
                    subscribers[id].subscribed_providers) >= 1
           /\ Count(calls[b].provider_id,
                    subscribers[id].subscribed_providers) >= 1

---------------------------------------------------------------------------
\* Properties of SpecCrud.

\* C1: after any sequence of create, update and delete calls run one at a
\* time from an empty collection, no two distinct stored subscribers have
\* the same email.
EmailUnique ==
    \A i, j \in DOMAIN subscribers :
        i # j => subscribers[i].email # subscribers[j].email

\* C2: every stored password is an output of PasswordCodec.hash and never a
\* plaintext a caller passed in; the subscriber a successful create or update
\* stored does not hold the password of the payload.
PasswordHashedAtRest ==
    /\ \A i \in DOMAIN subscribers :
          /\ IsHashOutput(subscribers[i].password)
          /\ subscribers[i].password \notin Plaintexts
    /\ (last.op \in {"create", "update"} /\ last.kind = Ok
          /\ last.payload.password \in Plaintexts)
       => subscribers[last.id].password # last.payload.password

\* C4: update(id, subscriber) of a stored id fails with ExistingData when
\* subscriber.email is the email of a stored subscriber other than id, and
\* succeeds when subscriber.email is the email stored for id.
UpdateEmailConflict ==
    [][(last'.op = "update" /\ last'.id \in DOMAIN subscribers)
       => /\ (\E j \in DOMAIN subscribers :
                 j # last'.id /\ subscribers[j].email = last'.payload.email)
             => last'.kind = ExistingData
          /\ (subscribers[last'.id].email = last'.payload.email)
             => last'.kind = Ok]_vars

\* C5: create fails with ExistingData whenever a stored subscriber has the
\* payload's email, whether that subscriber is verified ("already exists")
\* or not ("has not verified email"), and then nothing is persisted.
CreateExistingEmailFails ==
    [][(/\ last'.op = "create"
        /\ \E i \in DOMAIN subscribers :
              subscribers[i].email = last'.payload.email)
       => /\ last'.kind = ExistingData
          /\ subscribers' = subscribers
          /\ nextId' = nextId
          /\ (\A i \in DOMAIN subscribers :
                 subscribers[i].email = last'.payload.email
                    => subscribers[i].is_verified)
             => last'.msg = "already exists"
          /\ (\A i \in DOMAIN subscribers :
                 subscribers[i].email = last'.payload.email
                    => ~subscribers[i].is_verified)
             => last'.msg = "has not verified email"]_vars

\* a create refused for the email of an unverified subscriber, while a
\* verified subscriber is stored too
CreateExistingEmailFailsWitness ==
    /\ last.op = "create" /\ last.kind = ExistingData
    /\ last.msg = "has not verified email"
    /\ \E i \in DOMAIN subscribers :
          subscribers[i].email = last.payload.email /\ ~subscribers[i].is_verified
    /\ \E i \in DOMAIN subscribers : subscribers[i].is_verified

====
